---- MODULE Spec2Model ----
(***************************************************************************)
(* Cast-vote-record ingestion: the Vendor A (scc_ingest) and Vendor B      *)
(* (sf_ingest) preprocessing runs, the Vendor A contest standardization    *)
(* and the Vendor A identity-field validator.                              *)
(*                                                                         *)
(* A Python string is modelled as a sequence of one-character strings, so  *)
(* that slicing, searching and comparing are computed and not assumed.     *)
(***************************************************************************)
EXTENDS Integers, Sequences, FiniteSets, TLC

VARIABLES
    contest,    \* standardize: the raw contest description
    std,        \* standardize: what the call computed
    spc,        \* standardize: "ready" | "done"
    df_id,      \* check_and_clean_id_invariants: the identity rows
    idres,      \* check_and_clean_id_invariants: outcome
    ipc,        \* check_and_clean_id_invariants: "ready" | "done"
    vendor,     \* preprocess_path: "A" (scc_ingest) | "B" (sf_ingest) | "-"
    raw,        \* preprocess_path: what read_raw returned
    pc,         \* preprocess_path: position in the run
    err,        \* preprocess_path: "none", or the exception that ended the run
    df,         \* preprocess: the long-format frame being transformed
    tables,     \* preprocess: the tables built so far
    written     \* the write() calls made, in order

vars == <<contest, std, spc, df_id, idres, ipc, vendor, raw, pc, err, df, tables, written>>

stdVars == <<contest, std, spc>>
idVars == <<df_id, idres, ipc>>
runVars == <<vendor, raw, pc, err, df, tables, written>>

---------------------------------------------------------------------------
(* Bounds *)

MaxSpaces == 3      \* longest run of spaces put into a description
MaxVoteFor == 2     \* largest N of "(Vote For=N)" drawn
MaxPad == 2         \* most zeros padded before a precinct number
MaxIdRows == 2      \* identity rows in one validator call
NumBallots == 2     \* ballots in one raw extract

---------------------------------------------------------------------------
(* Strings *)

Digits == {"0", "1", "2", "3", "4", "5", "6", "7", "8", "9"}

IsDigit(c) == c \in Digits

DigitVal(c) ==
    CASE c = "0" -> 0 [] c = "1" -> 1 [] c = "2" -> 2 [] c = "3" -> 3
      [] c = "4" -> 4 [] c = "5" -> 5 [] c = "6" -> 6 [] c = "7" -> 7
      [] c = "8" -> 8 [] c = "9" -> 9

DigitChar(n) ==
    CASE n = 0 -> "0" [] n = 1 -> "1" [] n = 2 -> "2" [] n = 3 -> "3"
      [] n = 4 -> "4" [] n = 5 -> "5" [] n = 6 -> "6" [] n = 7 -> "7"
      [] n = 8 -> "8" [] n = 9 -> "9"

RECURSIVE ToInt(_)
\* int(s) for a string of decimal digits
ToInt(s) ==
    IF s = <<>> THEN 0
    ELSE 10 * ToInt(SubSeq(s, 1, Len(s) - 1)) + DigitVal(s[Len(s)])

Spaces(n) == [i \in 1..n |-> " "]

\* s[i:] starts with lit (1-based i)
MatchAt(s, i, lit) ==
    /\ i >= 1
    /\ i + Len(lit) - 1 <= Len(s)
    /\ SubSeq(s, i, i + Len(lit) - 1) = lit

Min(S) == CHOOSE x \in S : \A y \in S : x <= y
Max(S) == CHOOSE x \in S : \A y \in S : x >= y

HasAdjacentSpaces(s) == \E i \in 1..(Len(s) - 1) : s[i] = " " /\ s[i + 1] = " "

---------------------------------------------------------------------------
(* Literals *)

Full == <<"F", "u", "l", "l">>
Short == <<"S", "h", "o", "r", "t">>
Unexpired == <<"U", "n", "e", "x", "p", "i", "r", "e", "d">>
Governor == <<"G", "o", "v", "e", "r", "n", "o", "r">>
City == <<"C", "i", "t", "y">>
Council == <<"C", "o", "u", "n", "c", "i", "l">>
CityCouncil == City \o <<" ">> \o Council
JudgePrefix == <<"J", "u", "d", "g", "e", " ">>
Sheriff == <<"S", "h", "e", "r", "i", "f", "f">>
VoteForOpen == <<" ", "(", "V", "o", "t", "e", " ", "F", "o", "r", "=">>
TermClose == <<" ", "T", "e", "r", "m">>
CommaSpace == <<",", " ">>

---------------------------------------------------------------------------
(* common_lib.transform and scc_transformers.TRANSFORMERS: an ordered list *)
(* of pattern matchers, each returning a (level, jurisdiction, office,     *)
(* district) tuple or declining; the first match wins and no match raises. *)

NoOffice == <<"", "", "", "">>

\* matcher 1: the statewide office, by exact name
TryGovernor(s) ==
    IF s = Governor
    THEN [matched |-> TRUE, value |-> <<"State", "California", "Governor", "Statewide">>]
    ELSE [matched |-> FALSE, value |-> NoOffice]

\* matcher 2: "Judge <seat>", by exact prefix; the seat digit is the district
TryJudge(s) ==
    IF MatchAt(s, 1, JudgePrefix) /\ Len(s) = Len(JudgePrefix) + 1 /\ IsDigit(s[Len(s)])
    THEN [matched |-> TRUE, value |-> <<"County", "Santa Clara", "Judge", s[Len(s)]>>]
    ELSE [matched |-> FALSE, value |-> NoOffice]

\* matcher 3: "City <office>", by exact prefix
TryCity(s) ==
    IF s = CityCouncil
    THEN [matched |-> TRUE, value |-> <<"City", "San Jose", "Council", "At Large">>]
    ELSE [matched |-> FALSE, value |-> NoOffice]

\* scc_transformers.TRANSFORMERS
TRANSFORMERS == <<"governor", "judge", "city">>

Mayor == <<"M", "A", "Y", "O", "R">>
SupervisorPrefix == <<"S", "U", "P", "E", "R", "V", "I", "S", "O", "R", " ">>

\* sf matcher 1: the citywide office, by exact name
TryMayor(s) ==
    IF s = Mayor
    THEN [matched |-> TRUE, value |-> <<"City", "San Francisco", "Mayor", "At Large">>]
    ELSE [matched |-> FALSE, value |-> NoOffice]

\* sf matcher 2: "SUPERVISOR <district>", by exact prefix
TrySupervisor(s) ==
    IF /\ MatchAt(s, 1, SupervisorPrefix)
       /\ Len(s) = Len(SupervisorPrefix) + 1
       /\ IsDigit(s[Len(s)])
    THEN [matched |-> TRUE, value |-> <<"City", "San Francisco", "Supervisor", s[Len(s)]>>]
    ELSE [matched |-> FALSE, value |-> NoOffice]

\* sf_transformers.TRANSFORMERS
SfTRANSFORMERS == <<"supervisor", "mayor">>

Try(t, s) ==
    CASE t = "governor" -> TryGovernor(s)
      [] t = "judge" -> TryJudge(s)
      [] t = "city" -> TryCity(s)
      [] t = "mayor" -> TryMayor(s)
      [] t = "supervisor" -> TrySupervisor(s)

\* the first matcher of ts that matches s, or a raise
transform(s, ts) ==
    LET hits == {k \in 1..Len(ts) : Try(ts[k], s).matched}
    IN  IF hits = {}
        THEN [raised |-> TRUE, value |-> NoOffice]
        ELSE [raised |-> FALSE, value |-> Try(ts[Min(hits)], s).value]

---------------------------------------------------------------------------
(* scc_ingest.standardize *)

RECURSIVE ReplaceDouble(_)
\* contest.replace("  ", " "): one left-to-right pass over non-overlapping
\* occurrences; the replacement text is not scanned again
ReplaceDouble(s) ==
    IF Len(s) < 2 THEN s
    ELSE IF s[1] = " " /\ s[2] = " "
         THEN <<" ">> \o ReplaceDouble(SubSeq(s, 3, Len(s)))
         ELSE <<s[1]>> \o ReplaceDouble(Tail(s))

\* re.search(r" \(Vote For=(\d+)\)$", s): start of the leftmost match, the
\* digits of group 1
SearchVoteFor(s) ==
    LET open == Len(VoteForOpen)
        starts == {i \in 1..Len(s) :
                     /\ MatchAt(s, i, VoteForOpen)
                     /\ i + open <= Len(s) - 1
                     /\ \A k \in (i + open)..(Len(s) - 1) : IsDigit(s[k])
                     /\ s[Len(s)] = ")"}
    IN  IF starts = {}
        THEN [found |-> FALSE, start |-> 0, group |-> <<>>]
        ELSE [found |-> TRUE, start |-> Min(starts),
              group |-> SubSeq(s, Min(starts) + open, Len(s) - 1)]

\* SearchTerm with the group written ".*": it may run across commas
SearchTermAnyGroup(s) ==
    LET starts == {i \in 1..Len(s) :
                     /\ MatchAt(s, i, CommaSpace)
                     /\ i + 2 <= Len(s) - 4
                     /\ MatchAt(s, Len(s) - 4, TermClose)}
    IN  IF starts = {}
        THEN [found |-> FALSE, start |-> 0, group |-> <<>>]
        ELSE [found |-> TRUE, start |-> Min(starts),
              group |-> SubSeq(s, Min(starts) + 2, Len(s) - 5)]

\* re.search(r", ([^,]*) Term$", s): start of the leftmost match, group 1
SearchTerm(s) ==
    LET starts == {i \in 1..Len(s) :
                     /\ MatchAt(s, i, CommaSpace)
                     /\ i + 2 <= Len(s) - 4
                     /\ MatchAt(s, Len(s) - 4, TermClose)
                     /\ \A k \in (i + 2)..(Len(s) - 5) : s[k] # ","}
    IN  IF starts = {}
        THEN [found |-> FALSE, start |-> 0, group |-> <<>>]
        ELSE [found |-> TRUE, start |-> Min(starts),
              group |-> SubSeq(s, Min(starts) + 2, Len(s) - 5)]

\* contest[: match.start()]
Before(s, m) == SubSeq(s, 1, m.start - 1)

\* what one call of standardize computes: error is "none" when it returns
\* transform(...) + (term, vote_for), else the exception it raises; the
\* intermediate strings are kept as far as the call got
standardize(c) ==
    LET collapsed == ReplaceDouble(c)
        vf == SearchVoteFor(collapsed)
    IN  IF ~vf.found
        THEN \* match is None: match.group(1) raises AttributeError
             [error |-> "AttributeError", collapsed |-> collapsed,
              afterVote |-> <<>>, passed |-> <<>>, office |-> NoOffice,
              term |-> <<>>, vote_for |-> -1]
        ELSE LET afterVote == Before(collapsed, vf)
                 tm == SearchTerm(afterVote)
                 term == IF tm.found THEN tm.group ELSE Full
                 passed == IF tm.found THEN Before(afterVote, tm) ELSE afterVote
                 t == transform(passed, TRANSFORMERS)
             IN  [error |-> IF t.raised THEN "UnrecognizedContestFormat" ELSE "none",
                  collapsed |-> collapsed, afterVote |-> afterVote,
                  passed |-> passed, office |-> t.value,
                  term |-> term, vote_for |-> ToInt(vf.group)]

NoStd ==
    [error |-> "not called", collapsed |-> <<>>, afterVote |-> <<>>,
     passed |-> <<>>, office |-> NoOffice, term |-> <<>>, vote_for |-> -1]

---------------------------------------------------------------------------
(* The standardize specification: one call on a drawn description *)

Bodies ==
    {Governor, JudgePrefix \o <<"1">>, Sheriff}
    \cup {City \o Spaces(n) \o Council : n \in 1..MaxSpaces}

TermSuffixes ==
    {<<>>, CommaSpace \o Short \o TermClose,
     CommaSpace \o Short \o CommaSpace \o Unexpired \o TermClose}
    \cup {<<",">> \o Spaces(n) \o <<"T", "e", "r", "m">> : n \in 1..MaxSpaces}

VoteSuffixes ==
    {<<>>, VoteForOpen \o <<"1", "0">> \o <<")">>}
    \cup {VoteForOpen \o <<DigitChar(n)>> \o <<")">> : n \in 0..MaxVoteFor}

Descriptions == {b \o t \o v : b \in Bodies, t \in TermSuffixes, v \in VoteSuffixes}

IdleStd == contest = <<>> /\ std = NoStd /\ spc = "idle"
IdleId == df_id = <<>> /\ idres = [outcome |-> "not called", rows |-> <<>>] /\ ipc = "idle"
IdleRun ==
    /\ vendor = "-" /\ raw = <<>> /\ pc = "idle" /\ err = "none"
    /\ df = <<>> /\ tables = <<>> /\ written = <<>>

InitStd ==
    /\ contest \in Descriptions
    /\ std = NoStd
    /\ spc = "ready"
    /\ IdleId
    /\ IdleRun

Standardize ==
    /\ spc = "ready"
    /\ std' = standardize(contest)
    /\ spc' = "done"
    /\ UNCHANGED <<contest, idVars, runVars>>

NextStd == Standardize

SpecStd == InitStd /\ [][NextStd]_vars

---------------------------------------------------------------------------
(* Claims about standardize *)

OfficeFieldsNonEmpty(o) == \A k \in 1..4 : o[k] # ""

\* C5: every description for which standardize returns has vote_for >= 1 and
\* non-empty level, jurisdiction, office, district and term
C5_AcceptedIsWellFormed ==
    (spc = "done" /\ std.error = "none") =>
        /\ std.vote_for >= 1
        /\ OfficeFieldsNonEmpty(std.office)
        /\ std.term # <<>>

NoComma(s) == \A k \in 1..Len(s) : s[k] # ","

\* s is x ", " t " Term" for some x and some comma-free t
EndsWithTermSuffix(s) ==
    \E n \in 0..Len(s) :
        /\ Len(s) - n >= Len(CommaSpace) + Len(TermClose)
        /\ SubSeq(s, n + 1, n + 2) = CommaSpace
        /\ SubSeq(s, Len(s) - 4, Len(s)) = TermClose
        /\ NoComma(SubSeq(s, n + 3, Len(s) - 5))

\* r.afterVote is what is left of r.collapsed once " (Vote For=<digits>)" is
\* cut from its end
VoteForRemoved(r) ==
    \E n \in 1..Len(r.collapsed) :
        /\ r.collapsed = r.afterVote \o VoteForOpen
                           \o SubSeq(r.collapsed, Len(r.collapsed) - n, Len(r.collapsed) - 1)
                           \o <<")">>
        /\ \A k \in (Len(r.collapsed) - n)..(Len(r.collapsed) - 1) : IsDigit(r.collapsed[k])

\* the term and the string handed to the transformer chain, from the string
\* left after the vote-for suffix was removed
TermExtracted(r) ==
    IF EndsWithTermSuffix(r.afterVote)
    THEN /\ r.afterVote = r.passed \o CommaSpace \o r.term \o TermClose
         /\ NoComma(r.term)
    ELSE /\ r.term = Full
         /\ r.passed = r.afterVote

CityCouncilShortTerm == CityCouncil \o CommaSpace \o Short \o TermClose

C10_SpacesCollapsed == spc = "done" => ~HasAdjacentSpaces(std.collapsed)

---------------------------------------------------------------------------
(* scc_ingest.check_and_clean_id_invariants *)

Dash == <<"-">>
OpenParen == <<" ", "(">>

\* df_id["TabulatorNum"] + "-" + df_id["BatchId"] + "-" + df_id["RecordId"]
JoinedId(row) == row.TabulatorNum \o Dash \o row.BatchId \o Dash \o row.RecordId

\* (ImprintedId == i_id) | (ImprintedId == "")
ImprintedIdOk(row) == row.ImprintedId = JoinedId(row) \/ row.ImprintedId = <<>>

\* a string int() accepts: decimal digits (the only numerals the rows hold)
IsNumeral(s) == s # <<>> /\ \A k \in 1..Len(s) : IsDigit(s[k])

\* astype(np.int16) / astype(np.int32) of a column of strings raises
\* ValueError on a string that is no numeral
CastOk(row, cols) == \A c \in cols : IsNumeral(row[c])

NoMatch == [found |-> FALSE, a |-> <<>>, b |-> <<>>]

\* str.extract(r"(?P<a>.+) \((?P<b>.+)\)"): the first match; both groups are
\* greedy, so a runs to the last " (" that still leaves a non-empty b before
\* the last ")", and b runs to that last ")"
ExtractBallotType(s) ==
    LET closes == {j \in 1..Len(s) : s[j] = ")"}
        opens == {k \in 2..Len(s) :
                    /\ MatchAt(s, k, OpenParen)
                    /\ closes # {}
                    /\ Max(closes) >= k + 3}
    IN  IF opens = {}
        THEN NoMatch
        ELSE [found |-> TRUE,
              a |-> SubSeq(s, 1, Max(opens) - 1),
              b |-> SubSeq(s, Max(opens) + 2, Max(closes) - 1)]

\* a == b on the extracted frame: a row without a match holds NaN in both
\* groups, and NaN == NaN is False
BallotTypeOk(row) ==
    LET m == ExtractBallotType(row.BallotType)
    IN  m.found /\ m.a = m.b

\* end of the longest run of characters of set cs that starts at s[i]
\* (i - 1 when s[i] is not in cs)
RunEnd(s, i, cs) ==
    Max({i - 1} \cup {j \in i..Len(s) : \A k \in i..j : s[k] \in cs})

NoPrecinct == [found |-> FALSE, a |-> <<>>, Precinct1 |-> <<>>, Precinct2 |-> <<>>]

\* PrecinctAStart with the leading "0*" left out of the pattern
PrecinctAStartUnstripped(s, i) == i

\* where group a starts in a match that starts at s[i]: 0* takes the leading
\* zeros and gives the last one back when no other digit follows
PrecinctAStart(s, i) ==
    LET zEnd == RunEnd(s, i, {"0"})
        dEnd == RunEnd(s, i, Digits)
    IN  IF zEnd < dEnd THEN zEnd + 1 ELSE dEnd

\* the match of r"0*(?P<a>\d+) \((?P<Precinct1>\d+)-?(?P<Precinct2>\d*)\)"
\* that starts at s[i]
PrecinctMatchAt(s, i) ==
    LET dEnd == RunEnd(s, i, Digits)
        p1End == RunEnd(s, dEnd + 3, Digits)
        dash == IF p1End + 1 <= Len(s) /\ s[p1End + 1] = "-" THEN 1 ELSE 0
        p2End == RunEnd(s, p1End + dash + 1, Digits)
    IN  IF /\ dEnd >= i
           /\ MatchAt(s, dEnd + 1, OpenParen)
           /\ p1End >= dEnd + 3
           /\ p2End + 1 <= Len(s)
           /\ s[p2End + 1] = ")"
        THEN [found |-> TRUE,
              a |-> SubSeq(s, PrecinctAStart(s, i), dEnd),
              Precinct1 |-> SubSeq(s, dEnd + 3, p1End),
              Precinct2 |-> SubSeq(s, p1End + dash + 1, p2End)]
        ELSE NoPrecinct

\* str.extract(precinct_regex): the leftmost match
ExtractPrecinct(s) ==
    LET starts == {i \in 1..Len(s) : PrecinctMatchAt(s, i).found}
    IN  IF starts = {} THEN NoPrecinct ELSE PrecinctMatchAt(s, Min(starts))

PrecinctOk(row) ==
    LET m == ExtractPrecinct(row.PrecinctPortion)
    IN  m.found /\ m.a = m.Precinct1

\* the row once its redundant columns are dropped and the clean ones kept
CleanRow(row) ==
    [TabulatorNum |-> ToInt(row.TabulatorNum),
     BatchId |-> ToInt(row.BatchId),
     RecordId |-> ToInt(row.RecordId),
     BallotType |-> ExtractBallotType(row.BallotType).a,
     Precinct1 |-> ExtractPrecinct(row.PrecinctPortion).Precinct1,
     Precinct2 |-> ExtractPrecinct(row.PrecinctPortion).Precinct2]

IntCols16(row) == CastOk(row, {"TabulatorNum", "BatchId"})
IntCols32(row) == CastOk(row, {"RecordId"})

\* the whole call, in the order of its statements: outcome "ok" and the
\* cleaned rows, or the assertion or conversion that raised
check_and_clean_id_invariants(rows) ==
    IF \E i \in 1..Len(rows) : ~ImprintedIdOk(rows[i])
    THEN [outcome |-> "ImprintedId mismatch", rows |-> <<>>]
    ELSE IF \E i \in 1..Len(rows) : ~IntCols16(rows[i])
    THEN [outcome |-> "ValueError", rows |-> <<>>]
    ELSE IF \E i \in 1..Len(rows) : ~BallotTypeOk(rows[i])
    THEN [outcome |-> "BallotType mismatch", rows |-> <<>>]
    ELSE IF \E i \in 1..Len(rows) : ~PrecinctOk(rows[i])
    THEN [outcome |-> "PrecintPortion mismatch", rows |-> <<>>]
    ELSE IF \E i \in 1..Len(rows) : ~IntCols32(rows[i])
    THEN [outcome |-> "ValueError", rows |-> <<>>]
    ELSE [outcome |-> "ok", rows |-> [i \in 1..Len(rows) |-> CleanRow(rows[i])]]

---------------------------------------------------------------------------
(* The validator specification: one call on drawn identity rows *)

VoteCenter == <<"V", "o", "t", "e", " ", "C", "e", "n", "t", "e", "r">>
VBM == <<"V", "B", "M">>
TypeNames == {VoteCenter, VBM}
BallotTypeOf(x, y) == x \o OpenParen \o y \o <<")">>

Zeros(n) == [i \in 1..n |-> "0"]
PrecinctNumbers == {<<"7">>, <<"1", "0">>, <<"0">>}
PrecinctFirsts == {<<"7">>, <<"1", "0">>, <<"0">>, <<"0", "7">>}
PrecinctTails == {<<>>, <<"-", "2">>}
PrecinctOf(pad, n, p1, tail) == Zeros(pad) \o n \o OpenParen \o p1 \o tail \o <<")">>

IdRow(tab, imprinted, btype, precinct) ==
    [TabulatorNum |-> tab, BatchId |-> <<"2">>, RecordId |-> <<"3", "1">>,
     ImprintedId |-> imprinted, BallotType |-> btype, PrecinctPortion |-> precinct]

TabulatorNums == {<<"1", "2">>, <<"A">>}
ImprintedIds(tab) ==
    {<<>>, tab \o <<"-", "2", "-", "3", "1">>, tab \o <<"-", "2", "-", "3", "2">>}

IdRows ==
    {IdRow(tab, imp, BallotTypeOf(x, y), PrecinctOf(pad, n, p1, tail)) :
        tab \in TabulatorNums, imp \in UNION {ImprintedIds(tb) : tb \in TabulatorNums},
        x \in TypeNames, y \in TypeNames,
        pad \in 0..MaxPad, n \in PrecinctNumbers, p1 \in PrecinctFirsts,
        tail \in PrecinctTails}

\* the rows after the first are drawn from a few: one clean, one per fault
GoodRow ==
    IdRow(<<"1", "2">>, <<>>, BallotTypeOf(VBM, VBM), PrecinctOf(1, <<"7">>, <<"7">>, <<>>))
OtherRows ==
    {GoodRow,
     [GoodRow EXCEPT !.ImprintedId = <<"9">>],
     [GoodRow EXCEPT !.BallotType = BallotTypeOf(VBM, VoteCenter)],
     [GoodRow EXCEPT !.PrecinctPortion = PrecinctOf(1, <<"7">>, <<"1", "0">>, <<"-", "2">>)]}

InitId ==
    /\ \E first \in IdRows, others \in [1..(MaxIdRows - 1) -> OtherRows] :
           df_id = <<first>> \o others
    /\ idres = [outcome |-> "not called", rows |-> <<>>]
    /\ ipc = "ready"
    /\ IdleStd
    /\ IdleRun

CheckAndCleanIdInvariants ==
    /\ ipc = "ready"
    /\ idres' = check_and_clean_id_invariants(df_id)
    /\ ipc' = "done"
    /\ UNCHANGED <<df_id, stdVars, runVars>>

NextId == CheckAndCleanIdInvariants

SpecId == InitId /\ [][NextId]_vars

---------------------------------------------------------------------------
(* Claims about check_and_clean_id_invariants *)

RECURSIVE StripZeros(_)
\* a numeral without its leading zeros (its last digit always stays)
StripZeros(s) == IF Len(s) > 1 /\ s[1] = "0" THEN StripZeros(Tail(s)) ELSE s

ImprintedDisagrees(row) ==
    /\ row.ImprintedId # <<>>
    /\ row.ImprintedId # row.TabulatorNum \o <<"-">> \o row.BatchId \o <<"-">> \o row.RecordId

\* the ballot type reads "X (Y)" with X different from Y
BallotTypeDisagrees(row) ==
    \E x \in TypeNames, y \in TypeNames : x # y /\ row.BallotType = BallotTypeOf(x, y)

\* the precinct portion reads "<zero-padded N> (<P1>-<P2>?)" and the
\* zero-stripped N differs from P1
PrecinctDisagrees(row) ==
    \E pad \in 0..MaxPad, n \in PrecinctNumbers, p1 \in PrecinctFirsts, tail \in PrecinctTails :
        /\ row.PrecinctPortion = PrecinctOf(pad, n, p1, tail)
        /\ StripZeros(Zeros(pad) \o n) # p1

Disagrees(row) ==
    ImprintedDisagrees(row) \/ BallotTypeDisagrees(row) \/ PrecinctDisagrees(row)

SomeRowDisagrees == \E i \in 1..Len(df_id) : Disagrees(df_id[i])

NumericIds(row) ==
    /\ IsNumeral(row.TabulatorNum) /\ IsNumeral(row.BatchId) /\ IsNumeral(row.RecordId)

AllIdsNumeric == \A i \in 1..Len(df_id) : NumericIds(df_id[i])

Raised == idres.outcome # "ok"

\* C6 as stated: the call raises whenever some ballot's redundant encodings
\* disagree, and completes without raising when every ballot agrees
C6_Original ==
    ipc = "done" =>
        /\ SomeRowDisagrees => Raised
        /\ ~SomeRowDisagrees => ~Raised

\* C6 amended: the call raises whenever some ballot's redundant encodings
\* disagree; when every ballot agrees it completes without raising provided
\* the tabulator, batch and record ids are decimal numerals, and raises
\* ValueError from the integer conversion otherwise
C6_ValidatorDecides ==
    ipc = "done" =>
        /\ SomeRowDisagrees => Raised
        /\ (~SomeRowDisagrees /\ AllIdsNumeric) => ~Raised
        /\ (~SomeRowDisagrees /\ ~AllIdsNumeric) => idres.outcome = "ValueError"

\* "007 (7-2)" passes and leaves precinct1 "7", precinct2 "2"
C6_Witness ==
    /\ ipc = "done"
    /\ df_id[1].PrecinctPortion = <<"0", "0", "7", " ", "(", "7", "-", "2", ")">>
    /\ df_id[1].ImprintedId = <<"1", "2", "-", "2", "-", "3", "1">>
    /\ idres.outcome = "ok"
    /\ idres.rows[1].Precinct1 = <<"7">>
    /\ idres.rows[1].Precinct2 = <<"2">>
    /\ idres.rows[1].BallotType = VoteCenter

---------------------------------------------------------------------------
(* Frames: ordering, levels, factorization *)

\* U+2014, the dash of "BONDS-(YES|NO)" column labels, as one character
EmDash == "u2014"

\* the characters the labels use, in code-point order
CodeOrder ==
    <<" ", "\"", "(", ")", ",", "-",
      "0", "1", "2", "3", "4", "5", "6", "7", "8", "9", ":", ";", "=",
      "A", "B", "C", "D", "E", "F", "G", "H", "I", "J", "K", "L", "M",
      "N", "O", "P", "Q", "R", "S", "T", "U", "V", "W", "X", "Y", "Z", "_",
      "a", "b", "c", "d", "e", "f", "g", "h", "i", "j", "k", "l", "m",
      "n", "o", "p", "q", "r", "s", "t", "u", "v", "w", "x", "y", "z", EmDash>>

Ord(c) == CHOOSE i \in 1..Len(CodeOrder) : CodeOrder[i] = c

RECURSIVE StrLess(_, _)
\* a < b for Python strings: lexicographic by code point
StrLess(a, b) ==
    IF b = <<>> THEN FALSE
    ELSE IF a = <<>> THEN TRUE
    ELSE IF a[1] = b[1] THEN StrLess(Tail(a), Tail(b))
    ELSE Ord(a[1]) < Ord(b[1])

\* the distinct values of a sequence, in first-seen order
Uniques(s) ==
    LET firsts == SelectSeq([k \in 1..Len(s) |-> k],
                            LAMBDA k : \A j \in 1..(k - 1) : s[j] # s[k])
    IN  [i \in 1..Len(firsts) |-> s[firsts[i]]]

IndexOf(s, v) == CHOOSE k \in 1..Len(s) : s[k] = v

\* Levels with the values left in first-seen order
LevelsFirstSeen(values) == Uniques(values)

\* the level of an index built from a column of strings: its distinct values,
\* sorted
Levels(values) == SortSeq(Uniques(values), StrLess)

\* Factorize numbering each row by its position
FactorizeByPosition(keys) == [k \in 1..Len(keys) |-> k - 1]

\* Index.factorize()[0]: each key's code, the distinct keys numbered from 0 in
\* first-seen order
Factorize(keys) == [k \in 1..Len(keys) |-> IndexOf(Uniques(keys), keys[k]) - 1]

\* df[cols + ["office_id"]].drop_duplicates().set_index("office_id"): the
\* first row of each distinct (office tuple, office_id)
OfficeTable(offices, oid) ==
    LET pairs == Uniques([k \in 1..Len(offices) |-> <<offices[k], oid[k]>>])
    IN  [k \in 1..Len(pairs) |->
            [office_id |-> pairs[k][2], level |-> pairs[k][1][1],
             jurisdiction |-> pairs[k][1][2], office |-> pairs[k][1][3],
             district |-> pairs[k][1][4]]]

\* MarkBefore comparing ballot and contest only
MarkBeforeNoRank(a, b) ==
    \/ a.cvr_id < b.cvr_id
    \/ a.cvr_id = b.cvr_id /\ a.contest_id < b.contest_id

\* the order of sort_index() on the (cvr_id, contest_id, rank) index
MarkBefore(a, b) ==
    \/ a.cvr_id < b.cvr_id
    \/ a.cvr_id = b.cvr_id /\ a.contest_id < b.contest_id
    \/ a.cvr_id = b.cvr_id /\ a.contest_id = b.contest_id /\ a.rank < b.rank

EmptyTables ==
    [cvr |-> <<>>, contest_data |-> <<>>, contest |-> <<>>, office |-> <<>>,
     candidate |-> <<>>, mark |-> <<>>]

---------------------------------------------------------------------------
(* scc_ingest.preprocess_path: Vendor A *)

Semicolon == <<";">>
WriteIn == <<"W", "r", "i", "t", "e", "-", "i", "n">>
UnnamedWord == <<"U", "n", "n", "a", "m", "e", "d">>
Bonds == <<"B", "O", "N", "D", "S", EmDash>>
Yes == <<"Y", "E", "S">>
No == <<"N", "O">>
NullValue == <<"<NA>">>

\* the ="..." wrapper of the first five raw columns, and str[2:-1]
Wrap(s) == <<"=", "\"">> \o s \o <<"\"">>
Unwrap(s) == SubSeq(s, 3, Len(s) - 1)

Contains(s, lit) == \E i \in 1..Len(s) : MatchAt(s, i, lit)

\* np.where(x.str.contains("Unnamed"), "", x)
Blank(s) == IF Contains(s, UnnamedWord) THEN <<>> ELSE s

RECURSIVE ReplaceBonds(_)
\* replace(r"BONDS-(YES|NO)", r"\1", regex=True), the dash being U+2014
ReplaceBonds(s) ==
    IF s = <<>> THEN s
    ELSE IF MatchAt(s, 1, Bonds \o Yes)
         THEN Yes \o ReplaceBonds(SubSeq(s, Len(Bonds \o Yes) + 1, Len(s)))
    ELSE IF MatchAt(s, 1, Bonds \o No)
         THEN No \o ReplaceBonds(SubSeq(s, Len(Bonds \o No) + 1, Len(s)))
    ELSE <<s[1]>> \o ReplaceBonds(Tail(s))

\* the merged column labels of update_column_index
LongLabel(col) ==
    [contest |-> Blank(col.contest),
     candidate |-> ReplaceBonds(Blank(col.candidate)) \o Semicolon \o Blank(col.party)]

RECURSIVE Split(_, _)
\* s.split(sep) for a one-character sep
Split(s, sep) ==
    IF \A k \in 1..Len(s) : s[k] # sep
    THEN <<s>>
    ELSE LET k == Min({j \in 1..Len(s) : s[j] = sep})
         IN  <<SubSeq(s, 1, k - 1)>> \o Split(SubSeq(s, k + 1, Len(s)), sep)

\* .replace("", None)
NoneIfEmpty(s) == IF s = <<>> THEN NullValue ELSE s

\* reformat_strings, set_index, split_cvr: the first five columns lose their
\* wrapper, the first becomes the integer index cvr_id, the next seven leave
\* df for df_cvr
SccSplitCvr ==
    /\ vendor = "A" /\ pc = "split_cvr"
    /\ LET n == Len(raw.rows)
           ids == [i \in 1..n |-> Unwrap(raw.rows[i].CvrNumber)]
       IN  IF \E i \in 1..n : ~IsNumeral(ids[i])
           THEN /\ pc' = "aborted" /\ err' = "ValueError"
                /\ UNCHANGED <<df, tables>>
           ELSE /\ df' = [columns |-> raw.columns,
                          rows |-> [i \in 1..n |->
                                      [cvr_id |-> ToInt(ids[i]),
                                       cells |-> raw.rows[i].cells]]]
                /\ tables' = [tables EXCEPT !.cvr =
                       [index |-> [i \in 1..n |-> ToInt(ids[i])],
                        rows |-> [i \in 1..n |->
                           [TabulatorNum |-> Unwrap(raw.rows[i].TabulatorNum),
                            BatchId |-> Unwrap(raw.rows[i].BatchId),
                            RecordId |-> Unwrap(raw.rows[i].RecordId),
                            ImprintedId |-> Unwrap(raw.rows[i].ImprintedId),
                            BallotType |-> raw.rows[i].BallotType,
                            PrecinctPortion |-> raw.rows[i].PrecinctPortion]]]]
                /\ pc' = "check_ids" /\ err' = err
    /\ UNCHANGED <<vendor, raw, written, stdVars, idVars>>

\* IdCheckRaises with the assertions compiled away
IdCheckNeverRaises(res) == FALSE

\* an assertion or conversion of check_and_clean_id_invariants raised, which
\* ends preprocess and preprocess_path with it
IdCheckRaises(res) == res.outcome # "ok"

\* check_and_clean_id_invariants(df_cvr)
SccCheckIds ==
    /\ vendor = "A" /\ pc = "check_ids"
    /\ LET res == check_and_clean_id_invariants(tables.cvr.rows)
       IN  IF IdCheckRaises(res)
           THEN /\ pc' = "aborted" /\ err' = res.outcome
                /\ UNCHANGED tables
           ELSE /\ tables' = [tables EXCEPT !.cvr.rows = res.rows]
                /\ pc' = "tidy" /\ err' = err
    /\ UNCHANGED <<vendor, raw, df, written, stdVars, idVars>>

\* melt(value_name="rank", ignore_index=False).dropna(): one row per column
\* and ballot, column by column, without the cells that read 0 (na_values)
Melt(columns, kept, rows) ==
    LET n == Len(rows)
        all == [k \in 1..(Len(kept) * n) |->
                  LET j == kept[((k - 1) \div n) + 1]
                      i == ((k - 1) % n) + 1
                  IN  [cvr_id |-> rows[i].cvr_id,
                       contest |-> LongLabel(columns[j]).contest,
                       candidate |-> LongLabel(columns[j]).candidate,
                       rank |-> rows[i].cells[j]]]
    IN  SelectSeq(all, LAMBDA r : r.rank # 0)

\* the order of sort_index() on the (cvr_id, contest, candidate) index, the
\* two labels compared by their codes
LongBefore(a, b) ==
    \/ a.cvr_id < b.cvr_id
    \/ a.cvr_id = b.cvr_id /\ a.contest < b.contest
    \/ a.cvr_id = b.cvr_id /\ a.contest = b.contest /\ a.candidate < b.candidate

\* update_column_index and tidy: the write-in columns are dropped (KeyError
\* when there is none), the labels merged, the table melted and indexed by
\* (cvr_id, contest, candidate), each label held as a code into its level
SccTidy ==
    /\ vendor = "A" /\ pc = "tidy"
    /\ LET cols == df.columns
           kept == SelectSeq([j \in 1..Len(cols) |-> j],
                             LAMBDA j : cols[j].candidate # WriteIn)
       IN  IF Len(kept) = Len(cols)
           THEN /\ pc' = "aborted" /\ err' = "KeyError"
                /\ df' = df
           ELSE \E long \in {Melt(cols, kept, df.rows)} :
                \E contests \in {Levels([k \in 1..Len(long) |-> long[k].contest])} :
                \E candidates \in {Levels([k \in 1..Len(long) |-> long[k].candidate])} :
                \E coded \in {[k \in 1..Len(long) |->
                                 [cvr_id |-> long[k].cvr_id,
                                  contest |-> IndexOf(contests, long[k].contest) - 1,
                                  candidate |-> IndexOf(candidates, long[k].candidate) - 1,
                                  rank |-> long[k].rank]]} :
                   /\ df' = [levels |-> [contest |-> contests, candidate |-> candidates],
                             rows |-> SortSeq(coded, LongBefore)]
                   /\ pc' = "split_contest" /\ err' = err
    /\ UNCHANGED <<vendor, raw, tables, written, stdVars, idVars>>

\* split_contest: every contest level is standardized (the first failure ends
\* the run), offices are factorized out, and the contest level becomes the
\* contest ids
SccSplitContest ==
    /\ vendor = "A" /\ pc = "split_contest"
    /\ LET lv == df.levels.contest
           contest_data == [k \in 1..Len(lv) |-> standardize(lv[k])]
           failed == {k \in 1..Len(lv) : contest_data[k].error # "none"}
           offices == [k \in 1..Len(lv) |-> contest_data[k].office]
           oid == Factorize(offices)
       IN  IF failed # {}
           THEN /\ pc' = "aborted" /\ err' = contest_data[Min(failed)].error
                /\ UNCHANGED <<df, tables>>
           ELSE /\ tables' = [tables EXCEPT
                      !.contest_data = offices,
                      !.contest = [k \in 1..Len(lv) |->
                                     [contest_id |-> k - 1,
                                      term |-> contest_data[k].term,
                                      vote_for |-> contest_data[k].vote_for,
                                      ranked |-> FALSE,
                                      office_id |-> oid[k]]],
                      !.office = OfficeTable(offices, oid)]
                /\ df' = [df EXCEPT !.levels.contest = [k \in 1..Len(lv) |-> k - 1]]
                /\ pc' = "split_candidate" /\ err' = err
    /\ UNCHANGED <<vendor, raw, written, stdVars, idVars>>

\* split_candidate: every candidate level is split into name and party, and
\* the candidate level becomes the candidate ids
SccSplitCandidate ==
    /\ vendor = "A" /\ pc = "split_candidate"
    /\ LET lv == df.levels.candidate
           cand_data == [k \in 1..Len(lv) |-> Split(lv[k], ";")]
       IN  IF \E k \in 1..Len(lv) : Len(cand_data[k]) # 2
           THEN /\ pc' = "aborted" /\ err' = "ValueError"
                /\ UNCHANGED <<df, tables>>
           ELSE /\ tables' = [tables EXCEPT !.candidate =
                      [k \in 1..Len(lv) |->
                          [candidate_id |-> k - 1,
                           name |-> NoneIfEmpty(cand_data[k][1]),
                           party |-> NoneIfEmpty(cand_data[k][2])]]]
                /\ df' = [df EXCEPT !.levels.candidate = [k \in 1..Len(lv) |-> k - 1]]
                /\ pc' = "finish" /\ err' = err
    /\ UNCHANGED <<vendor, raw, written, stdVars, idVars>>

\* the end of preprocess: candidate_id becomes a column, rank joins the
\* index, and the frame is sorted by (cvr_id, contest_id, rank)
SccFinish ==
    /\ vendor = "A" /\ pc = "finish"
    /\ LET marks == [k \in 1..Len(df.rows) |->
                       [cvr_id |-> df.rows[k].cvr_id,
                        contest_id |-> df.levels.contest[df.rows[k].contest + 1],
                        rank |-> df.rows[k].rank,
                        candidate_id |-> df.levels.candidate[df.rows[k].candidate + 1]]]
       IN  tables' = [tables EXCEPT !.mark = SortSeq(marks, MarkBefore)]
    /\ pc' = "write"
    /\ UNCHANGED <<vendor, raw, err, df, written, stdVars, idVars>>

\* write(df_cvr, df_contest, df_office, df_candidate, df_mark, out_path)
SccWrite ==
    /\ vendor = "A" /\ pc = "write"
    /\ written' = Append(written,
           [cvr |-> tables.cvr, contest |-> tables.contest, office |-> tables.office,
            candidate |-> tables.candidate, mark |-> tables.mark])
    /\ pc' = "done"
    /\ UNCHANGED <<vendor, raw, err, df, tables, stdVars, idVars>>

---------------------------------------------------------------------------
(* Vendor A raw extracts *)

Ann == <<"A", "n", "n">>
Bob == <<"B", "o", "b">>
DEM == <<"D", "E", "M">>
UnnamedParty == UnnamedWord \o <<":", " ", "9", "_", "l", "e", "v", "e", "l", "_", "2">>

VoteFor(n) == VoteForOpen \o <<DigitChar(n), ")">>
Judge1 == JudgePrefix \o <<"1">>
ShortTerm == CommaSpace \o Short \o TermClose

Column(c, cand, party) == [contest |-> c, candidate |-> cand, party |-> party]

\* the headers drawn: columns 1 and 2 take any ranks, column 3 is marked on
\* every ballot and column 4 on every ballot or on none (fixed4)
Headers ==
    {[columns |-> <<Column(Governor \o VoteFor(1), Ann, DEM),
                    Column(Judge1 \o VoteFor(1), Bob, UnnamedParty),
                    Column(Judge1 \o VoteFor(1), WriteIn, UnnamedParty),
                    Column(Judge1 \o ShortTerm \o VoteFor(1), Ann, DEM)>>,
      fixed4 |-> 1],
     [columns |-> <<Column(Judge1 \o VoteFor(1), Bonds \o Yes, UnnamedParty),
                    Column(CityCouncil \o VoteFor(2), Bonds \o No, UnnamedParty),
                    Column(CityCouncil \o VoteFor(2), WriteIn, UnnamedParty),
                    Column(Sheriff \o VoteFor(1), Ann, DEM)>>,
      fixed4 |-> 0],
     [columns |-> <<Column(Sheriff \o VoteFor(1), Ann, DEM),
                    Column(Governor \o VoteFor(1), Bob, UnnamedParty),
                    Column(Governor \o VoteFor(1), WriteIn, UnnamedParty),
                    Column(Governor \o VoteFor(1), Ann, DEM)>>,
      fixed4 |-> 1],
     [columns |-> <<Column(Governor \o VoteFor(1), Bob, UnnamedParty),
                    Column(Governor \o VoteFor(1), Ann, DEM),
                    Column(Governor \o VoteFor(1), WriteIn, UnnamedParty),
                    Column(Judge1 \o VoteFor(1), Ann, DEM)>>,
      fixed4 |-> 0],
     [columns |-> <<Column(Governor \o VoteFor(1), Ann, DEM),
                    Column(Judge1 \o VoteFor(1), Bob, UnnamedParty),
                    Column(Governor \o VoteFor(1), Bob, UnnamedParty),
                    Column(Judge1 \o VoteFor(1), Ann, DEM)>>,
      fixed4 |-> 0]}

CellRanks == {0, 1, 2}

\* how the identity fields of one ballot may be wrong
FaultyRow(fault) ==
    CASE fault = "BallotType" -> [GoodRow EXCEPT !.BallotType = BallotTypeOf(VBM, VoteCenter)]
      [] fault = "PrecinctPortion" ->
            [GoodRow EXCEPT !.PrecinctPortion = PrecinctOf(2, <<"7">>, <<"1", "0">>, <<"-", "2">>)]
      [] OTHER -> GoodRow

\* no faulty ballot, a faulty first ballot, or a faulty last ballot
IdFaults == {<<0, "none">>, <<1, "BallotType">>, <<NumBallots, "PrecinctPortion">>}

\* raw row i of NumBallots: the ballots come in descending CvrNumber
RawRow(i, idrow, cells) ==
    [CvrNumber |-> Wrap(<<DigitChar(NumBallots + 1 - i)>>),
     TabulatorNum |-> Wrap(idrow.TabulatorNum),
     BatchId |-> Wrap(idrow.BatchId),
     RecordId |-> Wrap(idrow.RecordId),
     ImprintedId |-> Wrap(idrow.ImprintedId),
     BallotType |-> idrow.BallotType,
     PrecinctPortion |-> idrow.PrecinctPortion,
     cells |-> cells]

SccRaws ==
    {[columns |-> h.columns,
      rows |-> [i \in 1..NumBallots |->
                  RawRow(i, IF i = bad[1] THEN FaultyRow(bad[2]) ELSE GoodRow,
                         <<free[i][1], free[i][2], 1, h.fixed4>>)]] :
        h \in Headers,
        free \in [1..NumBallots -> [1..2 -> CellRanks]],
        bad \in IdFaults}

InitScc ==
    /\ vendor = "A"
    /\ raw \in SccRaws
    /\ pc = "split_cvr" /\ err = "none"
    /\ df = <<>> /\ tables = EmptyTables /\ written = <<>>
    /\ IdleStd /\ IdleId

---------------------------------------------------------------------------
(* sf_ingest.preprocess_path: Vendor B *)

\* read_raw: every card of every session becomes one CvrRecord, numbered in
\* read order from 0, and every mark of the card one mark row under that
\* number
RECURSIVE ReadCards(_, _)
ReadCards(cards, cvr_id) ==
    IF cards = <<>> THEN <<>>
    ELSE [k \in 1..Len(cards[1].marks) |->
             [cvr_id |-> cvr_id,
              contest_id |-> cards[1].marks[k].ContestId,
              candidate_id |-> cards[1].marks[k].CandidateId,
              rank |-> cards[1].marks[k].Rank,
              is_vote |-> cards[1].marks[k].IsVote,
              is_ambiguous |-> cards[1].marks[k].IsAmbiguous]]
         \o ReadCards(Tail(cards), cvr_id + 1)

SfReadRaw ==
    /\ vendor = "B" /\ pc = "read_raw"
    /\ df' = [cvr_data |-> [i \in 1..Len(raw.cards) |->
                              [cvr_id |-> i - 1, filename |-> raw.cards[i].filename]],
              contest_data |-> raw.ContestManifest,
              candidate_data |-> raw.CandidateManifest,
              mark_data |-> ReadCards(raw.cards, 0)]
    /\ pc' = "contest_frame"
    /\ UNCHANGED <<vendor, raw, err, tables, written, stdVars, idVars>>

ById(a, b) == a.Id < b.Id

\* preprocess, lines 70-89: df_cvr, and df_contest with its renamed columns,
\* the ranked flag, vote_for taken from NumOfRanks where ranked, sorted by
\* contest_id
SfContestFrame ==
    /\ vendor = "B" /\ pc = "contest_frame"
    /\ LET sorted == SortSeq(df.contest_data, ById)
       IN  tables' = [tables EXCEPT
              !.cvr = [index |-> [i \in 1..Len(df.cvr_data) |-> df.cvr_data[i].cvr_id],
                       rows |-> [i \in 1..Len(df.cvr_data) |->
                                   [filename |-> df.cvr_data[i].filename]]],
              !.contest = [k \in 1..Len(sorted) |->
                             [contest_id |-> sorted[k].Id,
                              Description |-> sorted[k].Description,
                              NumOfRanks |-> sorted[k].NumOfRanks,
                              ranked |-> sorted[k].NumOfRanks > 1,
                              vote_for |-> IF sorted[k].NumOfRanks > 1
                                           THEN sorted[k].NumOfRanks
                                           ELSE sorted[k].VoteFor]]]
    /\ pc' = "standardize"
    /\ UNCHANGED <<vendor, raw, err, df, written, stdVars, idVars>>

\* sf_ingest.standardize on one row
sf_standardize(row) == transform(row.Description, SfTRANSFORMERS)

\* preprocess, lines 91-103: every contest row is standardized (the first
\* failure ends the run), Description is dropped and offices are factorized
\* out
SfStandardize ==
    /\ vendor = "B" /\ pc = "standardize"
    /\ LET rows == tables.contest
           values == [k \in 1..Len(rows) |-> sf_standardize(rows[k])]
           offices == [k \in 1..Len(rows) |-> values[k].value]
           oid == Factorize(offices)
       IN  IF \E k \in 1..Len(rows) : values[k].raised
           THEN /\ pc' = "aborted" /\ err' = "UnrecognizedContestFormat"
                /\ UNCHANGED tables
           ELSE /\ tables' = [tables EXCEPT
                      !.contest_data = offices,
                      !.contest = [k \in 1..Len(rows) |->
                                     [contest_id |-> rows[k].contest_id,
                                      NumOfRanks |-> rows[k].NumOfRanks,
                                      ranked |-> rows[k].ranked,
                                      vote_for |-> rows[k].vote_for,
                                      office_id |-> oid[k]]],
                      !.office = OfficeTable(offices, oid)]
                /\ pc' = "candidate_frame" /\ err' = err
    /\ UNCHANGED <<vendor, raw, df, written, stdVars, idVars>>

\* preprocess, lines 105-119: df_candidate with its renamed columns and an
\* absent party, sorted by candidate_id
SfCandidateFrame ==
    /\ vendor = "B" /\ pc = "candidate_frame"
    /\ LET sorted == SortSeq(df.candidate_data, ById)
       IN  tables' = [tables EXCEPT !.candidate =
              [k \in 1..Len(sorted) |->
                  [candidate_id |-> sorted[k].Id, name |-> sorted[k].Description,
                   contest_id |-> sorted[k].ContestId, party |-> NullValue]]]
    /\ pc' = "mark_frame"
    /\ UNCHANGED <<vendor, raw, err, df, written, stdVars, idVars>>

\* preprocess, lines 121-133: df_mark indexed by (cvr_id, contest_id, rank)
\* and sorted by it
SfMarkFrame ==
    /\ vendor = "B" /\ pc = "mark_frame"
    /\ tables' = [tables EXCEPT !.mark = SortSeq(df.mark_data, MarkBefore)]
    /\ pc' = "write"
    /\ UNCHANGED <<vendor, raw, err, df, written, stdVars, idVars>>

\* preprocess_path: the tuple preprocess returns is unpacked under the names
\* (df_cvr, df_contest, df_candidate, df_office, df_mark) and passed to write
\* in that order of names
SfWrite ==
    /\ vendor = "B" /\ pc = "write"
    /\ LET returned == <<tables.cvr, tables.contest, tables.office,
                         tables.candidate, tables.mark>>
           df_cvr == returned[1]
           df_contest == returned[2]
           df_candidate == returned[3]
           df_office == returned[4]
           df_mark == returned[5]
           args == <<df_cvr, df_contest, df_candidate, df_office, df_mark>>
       IN  written' = Append(written,
               [cvr |-> args[1], contest |-> args[2], office |-> args[3],
                candidate |-> args[4], mark |-> args[5]])
    /\ pc' = "done"
    /\ UNCHANGED <<vendor, raw, err, df, tables, stdVars, idVars>>

---------------------------------------------------------------------------
(* Vendor B raw extracts *)

Supervisor1 == SupervisorPrefix \o <<"1">>
DistrictAttorney == <<"D", "A">>

ContestRecord(id, description, voteFor, numOfRanks) ==
    [Id |-> id, Description |-> description, VoteFor |-> voteFor, NumOfRanks |-> numOfRanks]

CandidateRecord(id, description, contestId) ==
    [Id |-> id, Description |-> description, ContestId |-> contestId]

ContestManifests ==
    {<<ContestRecord(3, Supervisor1, 1, 0), ContestRecord(1, Supervisor1, 1, 1),
       ContestRecord(2, Mayor, 1, 3)>>,
     <<ContestRecord(0, Mayor, 1, 3), ContestRecord(1, Supervisor1, 1, 0)>>,
     <<ContestRecord(1, Mayor, 1, 3), ContestRecord(2, DistrictAttorney, 1, 0)>>,
     <<ContestRecord(7, SupervisorPrefix \o <<"2">>, 1, 0), ContestRecord(4, Supervisor1, 1, 0)>>}

CandidateManifests ==
    {<<CandidateRecord(6, Ann, 1), CandidateRecord(4, Bob, 2)>>,
     <<CandidateRecord(0, Ann, 0), CandidateRecord(1, Bob, 1)>>}

Mark(contestId, candidateId, rank) ==
    [ContestId |-> contestId, CandidateId |-> candidateId, Rank |-> rank,
     IsVote |-> TRUE, IsAmbiguous |-> FALSE]

\* the marks of one card: none, one mark (of a contest id 2 or 9), or two
\* marks that are not in (contest id, rank) order
CardMarks ==
    {<<>>, <<Mark(1, 4, 2), Mark(1, 6, 1)>>, <<Mark(2, 4, 1), Mark(1, 6, 1)>>}
    \cup {<<Mark(c, 4, r)>> : c \in {2, 9}, r \in {1, 2}}

CvrExport == <<"C", "v", "r", "E", "x", "p", "o", "r", "t", "_">>

SfRaws ==
    {[ContestManifest |-> cm, CandidateManifest |-> km,
      cards |-> [i \in 1..NumBallots |->
                   [filename |-> CvrExport \o <<DigitChar(i)>>, marks |-> marks[i]]]] :
        cm \in ContestManifests, km \in CandidateManifests,
        marks \in [1..NumBallots -> CardMarks]}

InitSf ==
    /\ vendor = "B"
    /\ raw \in SfRaws
    /\ pc = "read_raw" /\ err = "none"
    /\ df = <<>> /\ tables = EmptyTables /\ written = <<>>
    /\ IdleStd /\ IdleId

---------------------------------------------------------------------------
(* The run specification: one preprocess_path call of either vendor *)

Init == InitScc \/ InitSf

Next ==
    \/ SccSplitCvr
    \/ SccCheckIds
    \/ SccTidy
    \/ SccSplitContest
    \/ SccSplitCandidate
    \/ SccFinish
    \/ SccWrite
    \/ SfReadRaw
    \/ SfContestFrame
    \/ SfStandardize
    \/ SfCandidateFrame
    \/ SfMarkFrame
    \/ SfWrite

Spec == Init /\ [][Next]_vars

---------------------------------------------------------------------------
(* Claims about the runs *)

Range(s) == {s[k] : k \in 1..Len(s)}

\* the identity fields of raw ballot i, out of their wrappers
RawIdRow(i) ==
    [TabulatorNum |-> Unwrap(raw.rows[i].TabulatorNum),
     BatchId |-> Unwrap(raw.rows[i].BatchId),
     RecordId |-> Unwrap(raw.rows[i].RecordId),
     ImprintedId |-> Unwrap(raw.rows[i].ImprintedId),
     BallotType |-> raw.rows[i].BallotType,
     PrecinctPortion |-> raw.rows[i].PrecinctPortion]

\* Vendor A: the (ballot, column) cells that hold a mark of a column that is
\* not a write-in
ObservedCells ==
    {ij \in (1..Len(raw.rows)) \X (1..Len(raw.columns)) :
        /\ raw.columns[ij[2]].candidate # WriteIn
        /\ raw.rows[ij[1]].cells[ij[2]] # 0}

ObservedContests == {LongLabel(raw.columns[ij[2]]).contest : ij \in ObservedCells}
ObservedCandidates == {LongLabel(raw.columns[ij[2]]).candidate : ij \in ObservedCells}

\* some identity check fails, or some contest description is not recognized
InputRejected ==
    IF vendor = "A"
    THEN \/ \E i \in 1..Len(raw.rows) : Disagrees(RawIdRow(i))
         \/ \E c \in ObservedContests : standardize(c).error # "none"
    ELSE \E k \in 1..Len(raw.ContestManifest) :
            transform(raw.ContestManifest[k].Description, SfTRANSFORMERS).raised

\* C1: the five tables are handed to the writer at most once, only in a run
\* whose identity checks and contest standardizations all succeeded and only
\* once preprocess has built all five; a run in which one fails never
\* invokes the writer
C1_AtomicWrite ==
    /\ Len(written) <= 1
    /\ written # <<>> =>
          /\ pc = "done" /\ err = "none"
          /\ ~InputRejected
          /\ written[1] = [cvr |-> tables.cvr, contest |-> tables.contest,
                           office |-> tables.office, candidate |-> tables.candidate,
                           mark |-> tables.mark]
    /\ (InputRejected \/ pc = "aborted") => written = <<>>
    /\ pc = "done" => Len(written) = 1

\* a run that passed the identity checks and then met a description no
\* transformer matches: nothing was written
C1_Witness ==
    /\ vendor = "A" /\ pc = "aborted" /\ err = "UnrecognizedContestFormat"
    /\ tables.cvr # <<>>
    /\ written = <<>>

Ids(table, field) == {table[k][field] : k \in 1..Len(table)}

\* C2: in every output, each mark's ballot, contest and candidate ids and
\* each contest's office id are ids of rows of the table they point into
C2_NoOrphans ==
    written # <<>> =>
        LET w == written[1]
        IN  /\ \A k \in 1..Len(w.mark) :
                  /\ w.mark[k].cvr_id \in Range(w.cvr.index)
                  /\ w.mark[k].contest_id \in Ids(w.contest, "contest_id")
                  /\ w.mark[k].candidate_id \in Ids(w.candidate, "candidate_id")
            /\ \A k \in 1..Len(w.contest) :
                  w.contest[k].office_id \in Ids(w.office, "office_id")

Dense(table, field) ==
    /\ Ids(table, field) = 0..(Len(table) - 1)
    /\ Cardinality(Ids(table, field)) = Len(table)

\* C3: in every output the contest, candidate and office ids are each exactly
\* 0..n-1 for a table of n rows
C3_DenseIds ==
    written # <<>> =>
        /\ Dense(written[1].contest, "contest_id")
        /\ Dense(written[1].candidate, "candidate_id")
        /\ Dense(written[1].office, "office_id")

OfficeTuple(row) == <<row.level, row.jurisdiction, row.office, row.district>>

OfficesFactorized == pc \in {"split_candidate", "finish", "candidate_frame", "mark_frame", "write", "done"}

\* C4: two contests get the same office id exactly when their (level,
\* jurisdiction, office, district) tuples are equal; office ids are 0, 1, 2,
\* ... in the order each distinct tuple is first seen in the contest sequence;
\* the Office table holds one row per office id, no two with the same tuple
C4_OfficeFactorization ==
    OfficesFactorized =>
        LET cd == tables.contest_data
            c == tables.contest
            o == tables.office
        IN  /\ Len(c) = Len(cd)
            /\ \A i, j \in 1..Len(c) : (c[i].office_id = c[j].office_id) <=> (cd[i] = cd[j])
            /\ \A i \in 1..Len(c) :
                  (\A j \in 1..(i - 1) : cd[j] # cd[i]) =>
                      c[i].office_id = Cardinality({cd[j] : j \in 1..(i - 1)})
            /\ Len(o) = Cardinality(Range(cd))
            /\ \A k \in 1..Len(o) :
                  \E i \in 1..Len(c) : c[i].office_id = o[k].office_id /\ cd[i] = OfficeTuple(o[k])
            /\ \A k, l \in 1..Len(o) :
                  (o[k].office_id = o[l].office_id \/ OfficeTuple(o[k]) = OfficeTuple(o[l])) => k = l

\* three contests, the first and the third of one office, the second of an
\* office whose tuple sorts before theirs
C4_Witness ==
    /\ pc = "done"
    /\ Len(tables.contest) = 3
    /\ tables.contest[1].office_id = 0
    /\ tables.contest[2].office_id = 1
    /\ tables.contest[3].office_id = 0
    /\ tables.contest_data[2][3] = "Mayor"
    /\ Len(tables.office) = 2

KeyLeq(a, b) ==
    \/ a.cvr_id < b.cvr_id
    \/ a.cvr_id = b.cvr_id /\ a.contest_id < b.contest_id
    \/ a.cvr_id = b.cvr_id /\ a.contest_id = b.contest_id /\ a.rank <= b.rank

\* C7: the Mark table preprocess returns is in non-decreasing lexicographic
\* order of (ballot id, contest id, rank)
C7_MarkSorted ==
    pc \in {"write", "done"} =>
        \A k \in 1..(Len(tables.mark) - 1) : KeyLeq(tables.mark[k], tables.mark[k + 1])

\* a Vendor B table of three marks or more that the raw marks were not
\* already in the order of
C7_Witness ==
    /\ vendor = "B" /\ pc = "done"
    /\ Len(tables.mark) >= 3
    /\ tables.mark # df.mark_data
    /\ written[1].mark = tables.mark

\* how many strings of S sort before s
Rank(S, s) == Cardinality({x \in S : StrLess(x, s)})

Unnull(v) == IF v = NullValue THEN <<>> ELSE v

\* C8: in Vendor A, contest (candidate) id k belongs to the k-th, in sorted
\* order, of the distinct contest (candidate) descriptions that have a mark,
\* and every mark of raw column (c, d) carries the id of the Contest row
\* standardized from c and of the Candidate row split from d
C8_SortedCodes ==
    (vendor = "A" /\ pc \in {"write", "done"}) =>
        /\ Len(tables.contest) = Cardinality(ObservedContests)
        /\ \A c \in ObservedContests :
              LET row == tables.contest[Rank(ObservedContests, c) + 1]
              IN  /\ row.contest_id = Rank(ObservedContests, c)
                  /\ row.term = standardize(c).term
                  /\ row.vote_for = standardize(c).vote_for
        /\ Len(tables.candidate) = Cardinality(ObservedCandidates)
        /\ \A d \in ObservedCandidates :
              LET row == tables.candidate[Rank(ObservedCandidates, d) + 1]
              IN  /\ row.candidate_id = Rank(ObservedCandidates, d)
                  /\ d = Unnull(row.name) \o Semicolon \o Unnull(row.party)
        /\ Len(tables.mark) = Cardinality(ObservedCells)
        /\ Range(tables.mark) =
              {[cvr_id |-> NumBallots + 1 - ij[1],
                contest_id |-> Rank(ObservedContests, LongLabel(raw.columns[ij[2]]).contest),
                rank |-> raw.rows[ij[1]].cells[ij[2]],
                candidate_id |-> Rank(ObservedCandidates, LongLabel(raw.columns[ij[2]]).candidate)] :
                 ij \in ObservedCells}

\* the first raw column is of "Judge 1", yet contest 0 is "City Council",
\* which sorts first, and candidate 0 is "NO", seen after "YES"
C8_Witness ==
    /\ vendor = "A" /\ pc = "done"
    /\ raw.columns[1].contest = Judge1 \o VoteFor(1)
    /\ Len(tables.contest) = 2
    /\ tables.contest[1].vote_for = 2
    /\ tables.candidate[1].name = No
    /\ \E k \in 1..Len(tables.mark) :
          tables.mark[k].contest_id = 1 /\ tables.mark[k].candidate_id = 1

====
